---- MODULE Spec2Model ----
(***************************************************************************)
(* Model of the bna-rentals ingestion pipeline:                            *)
(*   - ZillowFetcher.fetchPage / iteratePages / collectProperties          *)
(*     (src/src/lib/zillow/fetcher.ts)                                     *)
(*   - DatabaseMigrator (src/src/lib/db/migrator.ts) and the               *)
(*     nashville_rentals table (src/supabase/schema.sql)                   *)
(*   - the POST /api/sync route handler (src/unnamed/part_001), the GET    *)
(*     /api/rentals handler (src/unnamed/part_002) and the GET             *)
(*     /api/cron/daily-fetch handler                                       *)
(*     (src/src/app/api/cron/daily-fetch/route.ts)                         *)
(*                                                                         *)
(* Optional values (null / undefined in the source) are sequences of       *)
(* length 0 or 1: None is <<>>, Some(x) is <<x>>.                          *)
(***************************************************************************)
EXTENDS Integers, Sequences, FiniteSets, TLC

None == <<>>
Some(x) == <<x>>

\* ------------------------------------------------------------------------
\* Bounds of the model
\* ------------------------------------------------------------------------

\* longest property list handed to persistProperties by a direct caller
MaxProps == 3

\* ------------------------------------------------------------------------
\* Persistence layer: DatabaseMigrator
\* ------------------------------------------------------------------------

\* detail URLs of the listings; the empty string passes z.string()
DetailUrls == {"/a", "/b"}

\* ingestion dates (YYYY-MM-DD)
Dates == {"2024-01-01", "2024-01-02", "2024-01-03"}

\* prices are held in thousandths of the major unit (1599990 is 1599.99)
PersistPrices == {None, Some(1599990)}

\* a validated ZillowProperty (types.ts ZillowPropertySchema)
Property(url, price) ==
  [detailUrl |-> url, longitude |-> None, latitude |-> None, address |-> None,
   price |-> price, bedrooms |-> None, bathrooms |-> None, livingArea |-> None,
   propertyType |-> None, units |-> None]

PersistInputs == {Property(u, p) : u \in DetailUrls, p \in PersistPrices}

\* createHash('sha256').update(seed).digest('hex').toUpperCase(), modelled as
\* an injective tagging of the seed
Sha256Upper(seed) == <<"SHA256", seed>>

\* a key whose seed takes in the price column as well
GenerateRecordIdWithPrice(property) ==
  Sha256Upper(IF property.price = None THEN property.detailUrl
              ELSE property.detailUrl \o "__||__" \o ToString(property.price[1]))

\* PRIMARY_KEY_SOURCE_COLUMNS is <<"detail_url">>: the seed is the detail URL
GenerateRecordId(property) == Sha256Upper(property.detailUrl)

\* Math.round(p * 100) for p given in thousandths: round half up
RoundCents(milli) == (milli + 5) \div 10

\* property.price ? Math.round(property.price * 100) : null
PriceInCents(price) ==
  IF price = None \/ price[1] = 0 THEN None ELSE Some(RoundCents(price[1]))

PropertyToRecord(property, ingestionDate) ==
  [record_id |-> GenerateRecordId(property),
   detail_url |-> property.detailUrl,
   longitude |-> property.longitude,
   latitude |-> property.latitude,
   address |-> property.address,
   price |-> PriceInCents(property.price),
   bedrooms |-> property.bedrooms,
   bathrooms |-> property.bathrooms,
   living_area |-> property.livingArea,
   property_type |-> property.propertyType,
   units |-> property.units,
   ingestion_date |-> ingestionDate]

\* Map.set(key, value): an existing key keeps its place and takes the new
\* value, a new key is appended (a Map iterates in insertion order)
MapSet(seen, key, value) ==
  IF \E j \in 1..Len(seen) : seen[j][1] = key
    THEN [j \in 1..Len(seen) |->
            IF seen[j][1] = key THEN <<key, value>> ELSE seen[j]]
    ELSE Append(seen, <<key, value>>)

RECURSIVE SeenAfter(_, _)
SeenAfter(records, n) ==
  IF n = 0 THEN <<>>
  ELSE MapSet(SeenAfter(records, n - 1), records[n].detail_url, records[n])

\* a deduplication that keeps the first occurrence of each URL
DeduplicateKeepFirst(records) ==
  LET firsts == {j \in 1..Len(records) :
                   \A k \in 1..(j - 1) : records[k].detail_url # records[j].detail_url}
      RECURSIVE pick(_)
      pick(n) == IF n = 0 THEN <<>>
                 ELSE IF n \in firsts THEN Append(pick(n - 1), records[n])
                 ELSE pick(n - 1)
  IN pick(Len(records))

\* a deduplication that keeps each URL at the place of its last occurrence
DeduplicateAtLastPlace(records) ==
  LET lasts == {j \in 1..Len(records) :
                  \A k \in (j + 1)..Len(records) :
                    records[k].detail_url # records[j].detail_url}
      RECURSIVE pick(_)
      pick(n) == IF n = 0 THEN <<>>
                 ELSE IF n \in lasts THEN Append(pick(n - 1), records[n])
                 ELSE pick(n - 1)
  IN pick(Len(records))

\* Array.from(seen.values()) after seen.set(record.detail_url, record) for
\* every record
DeduplicateByDetailUrl(records) ==
  LET seen == SeenAfter(records, Len(records))
  IN [j \in 1..Len(seen) |-> seen[j][2]]

\* what the store answers to the bulk upsert: an error, or success with the
\* row set of .select() (the upserted rows, an empty list, or no data at all)
StoreAnswers == {"error", "rows", "empty", "nodata"}
StoreErrorMessage == "db unavailable"

\* the `data` of a successful upsert(...).select(): the number of rows of the
\* row set the store reports, None when it reports no row set (data: null)
StoreData(answer, uniqueRecords) ==
  IF answer = "rows" THEN Some(Len(uniqueRecords))
  ELSE IF answer = "empty" THEN Some(0)
  ELSE None

\* INSERT ... ON CONFLICT (detail_url) DO UPDATE of the whole batch as one
\* statement. A batch naming one detail_url twice, or an insert colliding on
\* the primary key record_id, fails the statement and writes nothing.
UpsertValid(rows, records) ==
  /\ \A j, k \in 1..Len(records) :
       j # k => records[j].detail_url # records[k].detail_url
  /\ \A j \in 1..Len(records) :
       \A row \in rows :
         row.record_id = records[j].record_id => row.detail_url = records[j].detail_url
  /\ \A j, k \in 1..Len(records) :
       records[j].record_id = records[k].record_id
         => records[j].detail_url = records[k].detail_url

Upsert(rows, records) ==
  LET urls == {records[j].detail_url : j \in 1..Len(records)}
  IN {row \in rows : row.detail_url \notin urls}
       \cup {records[j] : j \in 1..Len(records)}

\* a persistProperties that issues the upsert a second time when the first
\* one reports an error, against a store that reports the error again
PersistPropertiesRetryOnce(rows, properties, ingestionDate, today, answer) ==
  IF Len(properties) = 0
    THEN [rows |-> rows, calls |-> 0, threw |-> FALSE, value |-> 0, message |-> <<>>]
    ELSE
      LET date == IF ingestionDate = None \/ ingestionDate[1] = ""
                    THEN today ELSE ingestionDate[1]
          records == [j \in 1..Len(properties) |->
                        PropertyToRecord(properties[j], date)]
          uniqueRecords == DeduplicateByDetailUrl(records)
          failed == answer = "error" \/ ~UpsertValid(rows, uniqueRecords)
      IN IF failed
           THEN [rows |-> rows, calls |-> 2, threw |-> TRUE, value |-> 0,
                 message |-> <<"Failed to persist properties: ", StoreErrorMessage>>]
           ELSE [rows |-> Upsert(rows, uniqueRecords), calls |-> 1, threw |-> FALSE,
                 value |-> Len(uniqueRecords), message |-> <<>>]

\* a persistProperties without the early return on an empty list: the upsert
\* is issued with no rows
PersistPropertiesNoEmptyGuard(rows, properties, ingestionDate, today, answer) ==
  LET date == IF ingestionDate = None \/ ingestionDate[1] = ""
                THEN today ELSE ingestionDate[1]
      records == [j \in 1..Len(properties) |->
                    PropertyToRecord(properties[j], date)]
      uniqueRecords == DeduplicateByDetailUrl(records)
      failed == answer = "error" \/ ~UpsertValid(rows, uniqueRecords)
      data == StoreData(answer, uniqueRecords)
      dataLength == IF data = None THEN 0 ELSE data[1]
  IN IF failed
       THEN [rows |-> rows, calls |-> 1, threw |-> TRUE, value |-> 0,
             message |-> <<"Failed to persist properties: ", StoreErrorMessage>>]
       ELSE [rows |-> Upsert(rows, uniqueRecords), calls |-> 1, threw |-> FALSE,
             value |-> IF dataLength # 0 THEN dataLength ELSE Len(uniqueRecords),
             message |-> <<>>]

\* persistProperties(properties, ingestionDate) against the table `rows`,
\* with `today` the current date and `answer` the store's answer.
\* Result: the table afterwards, the number of upsert calls made, and either
\* the returned count or the thrown error message.
PersistProperties(rows, properties, ingestionDate, today, answer) ==
  IF Len(properties) = 0
    THEN [rows |-> rows, calls |-> 0, threw |-> FALSE, value |-> 0, message |-> <<>>]
    ELSE
      LET date == IF ingestionDate = None \/ ingestionDate[1] = ""
                    THEN today ELSE ingestionDate[1]
          records == [j \in 1..Len(properties) |->
                        PropertyToRecord(properties[j], date)]
          uniqueRecords == DeduplicateByDetailUrl(records)
          failed == answer = "error" \/ ~UpsertValid(rows, uniqueRecords)
          data == StoreData(answer, uniqueRecords)
          dataLength == IF data = None THEN 0 ELSE data[1]
      IN IF failed
           THEN [rows |-> rows, calls |-> 1, threw |-> TRUE, value |-> 0,
                 message |-> <<"Failed to persist properties: ", StoreErrorMessage>>]
           ELSE [rows |-> Upsert(rows, uniqueRecords), calls |-> 1, threw |-> FALSE,
                 value |-> IF dataLength # 0 THEN dataLength ELSE Len(uniqueRecords),
                 message |-> <<>>]

\* ------------------------------------------------------------------------
\* Fetch client: ZillowFetcher.fetchPage
\* ------------------------------------------------------------------------

\* raw JSON values of an upstream record: absent is None
Str(s) == <<"str", s>>
Num(n) == <<"num", n>>
Null == <<"null">>
Arr(items) == <<"arr", items>>
\* a mapping is the sequence of its <<key, value>> entries in insertion order
Obj(entries) == <<"obj", entries>>

\* bodies of failed responses (axiosError.response.data)
StringBody(s) == [tag |-> "string", message |-> None, error |-> None, detail |-> None, text |-> s]
ObjectBody(m, e, d) == [tag |-> "object", message |-> m, error |-> e, detail |-> d, text |-> ""]
NoBody == [tag |-> "undefined", message |-> None, error |-> None, detail |-> None, text |-> ""]

ErrorBodies == {NoBody, StringBody("quota"), ObjectBody(Some("bad key"), Some("E"), None),
                ObjectBody(None, None, Some("down"))}

\* ZillowAPIError.extractErrorMessage for the modelled bodies (string bodies,
\* and objects with a message, a string error or a detail)
ExtractErrorMessage(body) ==
  IF body.tag = "string" THEN body.text
  ELSE IF body.tag = "object" /\ body.message # None /\ body.message[1] # ""
    THEN body.message[1]
  ELSE IF body.tag = "object" /\ body.error # None /\ body.error[1] # ""
    THEN body.error[1]
  ELSE IF body.tag = "object" /\ body.detail # None /\ body.detail[1] # ""
    THEN body.detail[1]
  ELSE "Unknown API error"

\* payloads of successful responses (response.data)
NullPayload == [tag |-> "null", items |-> <<>>, results |-> None, props |-> None, totalPages |-> None]
ArrayPayload(items) == [tag |-> "array", items |-> items, results |-> None, props |-> None, totalPages |-> None]
ObjectPayload(results, props, totalPages) ==
  [tag |-> "object", items |-> <<>>, results |-> results, props |-> props, totalPages |-> totalPages]

\* what one call of this.client.get does
OkResponse(data) == [kind |-> "ok", status |-> 200, body |-> NoBody, data |-> data]
HttpError(status, body) == [kind |-> "http", status |-> status, body |-> body, data |-> NullPayload]
TransportError == [kind |-> "transport", status |-> 0, body |-> NoBody, data |-> NullPayload]
NonAxiosError == [kind |-> "nonaxios", status |-> 0, body |-> NoBody, data |-> NullPayload]

\* errors thrown by the fetch client (name, message, statusCode)
NoError == [name |-> "", message |-> <<>>, statusCode |-> None]
AuthenticationError(msg) ==
  [name |-> "AuthenticationError",
   message |-> <<"Authentication failed: ", msg, ". Please check your ZILLOW_RAPIDAPI_KEY.">>,
   statusCode |-> Some(401)]
RateLimitError(retriesArg) ==
  [name |-> "RateLimitError",
   message |-> <<"Rate limit exceeded after ", retriesArg, " attempts">>,
   statusCode |-> Some(429)]
ZillowAPIError(retriesArg, msg, status) ==
  [name |-> "ZillowAPIError",
   message |-> <<"Failed after ", retriesArg, " attempts: ", msg>>,
   statusCode |-> status]
UnknownError == [name |-> "Error", message |-> <<"non-axios error">>, statusCode |-> None]
\* the error of a property access on null
TypeError == [name |-> "TypeError", message |-> <<"null has no properties">>,
              statusCode |-> None]

Return(payload) == [do |-> "return", payload |-> payload, error |-> NoError, waitMs |-> 0]
Throw(error) == [do |-> "throw", payload |-> NullPayload, error |-> error, waitMs |-> 0]
Retry(waitMs) == [do |-> "retry", payload |-> NullPayload, error |-> NoError, waitMs |-> waitMs]

\* a fetchPage whose back-off does not grow with the attempt number
FetchPageAttemptFlatBackoff(att, retriesArg, cooldownArg, resp) ==
  IF resp.kind = "ok" THEN Return(resp.data)
  ELSE IF resp.kind = "nonaxios" THEN Throw(UnknownError)
  ELSE IF resp.kind = "http" /\ resp.status = 404
    THEN Return(ObjectPayload(Some(<<>>), None, None))
  ELSE IF resp.kind = "http" /\ resp.status \in {401, 403}
    THEN Throw(AuthenticationError(ExtractErrorMessage(resp.body)))
  ELSE IF resp.kind = "http" /\ resp.status = 429
    THEN IF att < retriesArg
           THEN Retry(cooldownArg * 1000)
           ELSE Throw(RateLimitError(retriesArg))
  ELSE IF att < retriesArg
    THEN Retry(cooldownArg * 1000)
    ELSE Throw(ZillowAPIError(retriesArg, ExtractErrorMessage(resp.body),
                              IF resp.kind = "http" THEN Some(resp.status) ELSE None))

\* a fetchPage that retries 401/403 like any other failure
FetchPageAttemptRetryAuth(att, retriesArg, cooldownArg, resp) ==
  IF resp.kind = "ok" THEN Return(resp.data)
  ELSE IF resp.kind = "nonaxios" THEN Throw(UnknownError)
  ELSE IF resp.kind = "http" /\ resp.status = 404
    THEN Return(ObjectPayload(Some(<<>>), None, None))
  ELSE IF resp.kind = "http" /\ resp.status = 429
    THEN IF att < retriesArg
           THEN Retry(cooldownArg * att * 1000)
           ELSE Throw(RateLimitError(retriesArg))
  ELSE IF att < retriesArg
    THEN Retry(cooldownArg * att * 1000)
    ELSE IF resp.kind = "http" /\ resp.status \in {401, 403}
      THEN Throw(AuthenticationError(ExtractErrorMessage(resp.body)))
      ELSE Throw(ZillowAPIError(retriesArg, ExtractErrorMessage(resp.body),
                                IF resp.kind = "http" THEN Some(resp.status) ELSE None))

\* a fetchPage that retries a 404 like any other failure
FetchPageAttemptRetryNotFound(att, retriesArg, cooldownArg, resp) ==
  IF resp.kind = "ok" THEN Return(resp.data)
  ELSE IF resp.kind = "nonaxios" THEN Throw(UnknownError)
  ELSE IF resp.kind = "http" /\ resp.status \in {401, 403}
    THEN Throw(AuthenticationError(ExtractErrorMessage(resp.body)))
  ELSE IF resp.kind = "http" /\ resp.status = 429
    THEN IF att < retriesArg
           THEN Retry(cooldownArg * att * 1000)
           ELSE Throw(RateLimitError(retriesArg))
  ELSE IF att < retriesArg
    THEN Retry(cooldownArg * att * 1000)
    ELSE Throw(ZillowAPIError(retriesArg, ExtractErrorMessage(resp.body),
                              IF resp.kind = "http" THEN Some(resp.status) ELSE None))

\* one pass of the body of fetchPage's for loop, given what client.get did
\* on attempt `att`
FetchPageAttempt(att, retriesArg, cooldownArg, resp) ==
  IF resp.kind = "ok" THEN Return(resp.data)
  ELSE IF resp.kind = "nonaxios" THEN Throw(UnknownError)
  ELSE IF resp.kind = "http" /\ resp.status = 404
    THEN Return(ObjectPayload(Some(<<>>), None, None))
  ELSE IF resp.kind = "http" /\ resp.status \in {401, 403}
    THEN Throw(AuthenticationError(ExtractErrorMessage(resp.body)))
  ELSE IF resp.kind = "http" /\ resp.status = 429
    THEN IF att < retriesArg
           THEN Retry(cooldownArg * att * 1000)
           ELSE Throw(RateLimitError(retriesArg))
  ELSE IF att < retriesArg
    THEN Retry(cooldownArg * att * 1000)
    ELSE Throw(ZillowAPIError(retriesArg, ExtractErrorMessage(resp.body),
                              IF resp.kind = "http" THEN Some(resp.status) ELSE None))

\* Math.max(1, Math.floor(page)) on integer page numbers
SafePageNumber(p) == IF p < 1 THEN 1 ELSE p

\* status code seen by the caller of client.get: 0 stands for a transport
\* failure (no response), -1 for an error that is not an AxiosError
RespCode(resp) ==
  IF resp.kind = "ok" THEN 200
  ELSE IF resp.kind = "http" THEN resp.status
  ELSE IF resp.kind = "transport" THEN 0
  ELSE 0 - 1

\* ------------------------------------------------------------------------
\* Program constants (src/unnamed/part_003, lib/config/constants) and the
\* scaled-down configuration of the model
\* ------------------------------------------------------------------------

DEFAULT_RETRIES == 4
DEFAULT_COOLDOWN == 5
RATE_LIMIT_WAIT_MS == 5000

\* scaled down: the program has twelve locations, BATCH_SIZE 5, MAX_PAGES 10
LOCATIONS == <<"37206, Nashville, TN", "37216, Nashville, TN", "37209, Nashville, TN">>
BATCH_SIZE == 2
MAX_PAGES == 3

\* largest retries argument of a direct fetchPage call
MaxRetries == 3
Cooldowns == {1, DEFAULT_COOLDOWN}

\* ------------------------------------------------------------------------
\* State
\* ------------------------------------------------------------------------

VARIABLES
  store,          \* rows of nashville_rentals
  latest,         \* history: detail URL -> the record last ingested for it
  persistResult,  \* outcome of the last persistProperties call
  pc,             \* where the running handler is suspended
  retries,        \* fetchPage's retries argument
  cooldown,       \* fetchPage's cooldown argument (seconds)
  page,           \* page being fetched
  attempt,        \* fetchPage's loop variable
  attempts,       \* history: the attempts completed in this fetchPage call
  reqCount,       \* history: requests issued in this fetchPage call
  sleeping,       \* duration (ms) of the sleep in progress, 0 if none
  fpResult,       \* outcome of the last finished fetchPage call
  pagesFetched,   \* history: pages requested in this iteratePages call
  yielded,        \* history: pages whose batch this iteratePages call yielded
  iterEnd,        \* why the last iteratePages call ended ("" while running)
  i,              \* POST: index of the first location of the batch
  loc,            \* collectProperties: position in batchLocations
  allRecords,     \* collectProperties: raw records accumulated
  allProperties,  \* POST: properties of the batches done
  batchLog,       \* history: outcome of every batch processed
  elapsed,        \* history: ms of sleep begun since the last upstream request
  response,       \* the HTTP response of POST /sync
  args,           \* argument of the function called directly
  result          \* what that call returned, None before it returns

persistVars == <<store, latest, persistResult>>
callVars == <<args, result>>
fetchVars == <<retries, cooldown, page, attempt, attempts, reqCount, sleeping, fpResult>>
iterVars == <<pagesFetched, yielded, iterEnd>>
syncVars == <<i, loc, allRecords, allProperties, batchLog, elapsed, response>>
vars == <<store, latest, persistResult, pc, retries, cooldown, page, attempt,
          attempts, reqCount, sleeping, fpResult, pagesFetched, yielded, iterEnd,
          i, loc, allRecords, allProperties, batchLog, elapsed, response, args, result>>

NoResult == [rows |-> {}, calls |-> 0, threw |-> FALSE, value |-> 0, message |-> <<>>]
NoFetch == [do |-> "none", payload |-> NullPayload, error |-> NoError, waitMs |-> 0]
NoResponse == [status |-> 0, success |-> FALSE, error |-> <<>>, collected |-> 0,
               persisted |-> 0, ingestionDate |-> ""]

InitPersistVars ==
  /\ store = {}
  /\ latest = [u \in DetailUrls |-> None]
  /\ persistResult = NoResult

InitFetchVars ==
  /\ retries = DEFAULT_RETRIES
  /\ cooldown = DEFAULT_COOLDOWN
  /\ page = 1
  /\ attempt = 0
  /\ attempts = <<>>
  /\ reqCount = 0
  /\ sleeping = 0
  /\ fpResult = NoFetch

InitIterVars ==
  /\ pagesFetched = <<>>
  /\ yielded = <<>>
  /\ iterEnd = ""

InitCallVars ==
  /\ args = None
  /\ result = None

InitSyncVars ==
  /\ i = 0
  /\ loc = 0
  /\ allRecords = <<>>
  /\ allProperties = <<>>
  /\ batchLog = <<>>
  /\ elapsed = 0
  /\ response = NoResponse

\* ------------------------------------------------------------------------
\* persistProperties called directly, by any number of callers one store
\* call at a time
\* ------------------------------------------------------------------------

SeqsUpTo(S, n) == UNION {[1..k -> S] : k \in 0..n}

\* history: the record of the last property carrying each URL of the call
LatestAfter(old, properties, date) ==
  [u \in DOMAIN old |->
     LET idx == {j \in 1..Len(properties) : properties[j].detailUrl = u}
     IN IF idx = {} THEN old[u]
        ELSE LET last == CHOOSE j \in idx : \A k \in idx : k <= j
             IN Some(PropertyToRecord(properties[last], date))]

PersistCall ==
  /\ pc = "persist_idle"
  /\ \E properties \in SeqsUpTo(PersistInputs, MaxProps),
        ingestionDate \in {None} \cup {Some(d) : d \in Dates},
        answer \in StoreAnswers :
       \E today \in (IF ingestionDate = None THEN Dates ELSE {"2024-01-02"}) :
         LET res == PersistProperties(store, properties, ingestionDate, today, answer)
             date == IF ingestionDate = None THEN today ELSE ingestionDate[1]
         IN /\ store' = res.rows
            /\ persistResult' = [res EXCEPT !.rows = {}]
            /\ latest' = IF res.threw \/ res.calls = 0 THEN latest
                         ELSE LatestAfter(latest, properties, date)
  /\ UNCHANGED <<pc, fetchVars, iterVars, syncVars, callVars>>

InitPersist ==
  /\ pc = "persist_idle"
  /\ InitPersistVars /\ InitFetchVars /\ InitIterVars /\ InitSyncVars /\ InitCallVars

NextPersist == PersistCall

SpecPersist == InitPersist /\ [][NextPersist]_vars

\* C1: the store is exactly the map from detail URL to the record last
\* ingested for it: one row per URL ever persisted (none is lost), each row
\* equal to the record built from the last property with that URL in the
\* most recent successful call that contained it, with that call's date.
C1_StoreIsLatestByUrl ==
  /\ \A u \in DetailUrls : Cardinality({row \in store : row.detail_url = u}) <= 1
  /\ store = {latest[u][1] : u \in {v \in DetailUrls : latest[v] # None}}

\* a later call overwrote a row of an earlier one with new values and date
C1_Witness ==
  /\ Cardinality(store) = 2
  /\ \E r \in store : r.ingestion_date = "2024-01-02" /\ r.price = Some(159999)
  /\ \E r \in store : r.ingestion_date = "2024-01-01" /\ r.price = None
  /\ persistResult.threw

\* C22: when the store's upsert reports an error, persistProperties throws an
\* error whose message wraps the store's message, after exactly one upsert
\* call (no retry), and the store holds exactly the rows it held before the
\* call: no subset of the batch is written.
C22_StoreErrorThrowsAndWritesNothing ==
  [][persistResult'.threw
       => /\ persistResult'.calls = 1
          /\ persistResult'.message
               = <<"Failed to persist properties: ", StoreErrorMessage>>
          /\ store' = store
          /\ latest' = latest]_vars

\* a call on a table that already holds rows has thrown
C22_Witness ==
  /\ persistResult.threw
  /\ persistResult.calls = 1
  /\ Cardinality(store) = 2
  /\ \A r \in store : r.ingestion_date = "2024-01-03"

\* ------------------------------------------------------------------------
\* fetchPage called directly with explicit retries and cooldown
\* ------------------------------------------------------------------------

\* records as the upstream API returns them
RawRecord(url, price) ==
  Obj((IF url = None THEN <<>> ELSE <<<<"detailUrl", url>>>>)
        \o (IF price = None THEN <<>> ELSE <<<<"price", price>>>>))
RecA == RawRecord(Str("/a"), Num(1599990))
RecB == RawRecord(Str("/b"), Null)
RecNoUrl == RawRecord(None, Num(2000500))

\* raw records as the upstream can send them: null, a number, well-formed
\* mappings (with a nested mapping, with units), and mappings whose
\* detailUrl is absent, not a string or empty, whose price is ill-typed, or
\* whose units list holds null or a number
RawRecords ==
  {Null, Num(7), RecA, RecB, RecNoUrl,
   RawRecord(Num(5), None),
   RawRecord(Str(""), None),
   RawRecord(Str("/a"), Str("1600")),
   Obj(<< <<"detailUrl", Str("/a")>>, <<"units", Arr(<<Null>>)>> >>),
   Obj(<< <<"detailUrl", Str("/a")>>, <<"units", Arr(<<Num(1)>>)>> >>),
   Obj(<< <<"detailUrl", Str("/b")>>,
          <<"address", Obj(<< <<"street", Str("1 Main St")>> >>)>>,
          <<"units", Arr(<< Obj(<< <<"price", Num(2000500)>>, <<"beds", Num(2)>> >>) >>)>> >>)}

ErrorStatuses == {404, 401, 403, 429, 500}

FetchPayloads == {NullPayload, ObjectPayload(Some(<<RecA>>), None, None)}

FetchResponses ==
  {OkResponse(d) : d \in FetchPayloads}
    \cup {HttpError(st, b) : st \in ErrorStatuses, b \in ErrorBodies}
    \cup {TransportError, NonAxiosError}

\* history entry of one finished attempt
Attempted(resp, step) ==
  [code |-> RespCode(resp), body |-> resp.body, data |-> resp.data, slept |-> step.do = "retry",
   waitMs |-> step.waitMs]

\* fetchPage is entered: the loop runs while attempt <= retries, and
\* `return null` follows it
FpCall ==
  /\ pc = "fp_call"
  /\ attempts' = <<>>
  /\ sleeping' = 0
  /\ attempt' = 1
  /\ IF 1 <= retries
       THEN /\ reqCount' = 1
            /\ pc' = "fp_awaiting"
            /\ fpResult' = NoFetch
       ELSE /\ reqCount' = 0
            /\ pc' = "fp_done"
            /\ fpResult' = Return(NullPayload)
  /\ UNCHANGED <<retries, cooldown, page, persistVars, callVars, iterVars, syncVars>>

\* client.get settles
FpReceive ==
  /\ pc = "fp_awaiting"
  /\ \E resp \in FetchResponses :
       LET step == FetchPageAttempt(attempt, retries, cooldown, resp)
       IN /\ attempts' = Append(attempts, Attempted(resp, step))
          /\ IF step.do = "retry"
               THEN /\ pc' = "fp_retryWait"
                    /\ sleeping' = step.waitMs
                    /\ fpResult' = fpResult
               ELSE /\ pc' = "fp_done"
                    /\ sleeping' = 0
                    /\ fpResult' = step
  /\ UNCHANGED <<retries, cooldown, page, attempt, reqCount, persistVars, callVars, iterVars, syncVars>>

\* the back-off sleep is over: `continue`, attempt++, next client.get
FpWake ==
  /\ pc = "fp_retryWait"
  /\ attempt' = attempt + 1
  /\ sleeping' = 0
  /\ IF attempt + 1 <= retries
       THEN /\ reqCount' = reqCount + 1
            /\ pc' = "fp_awaiting"
            /\ fpResult' = fpResult
       ELSE /\ reqCount' = reqCount
            /\ pc' = "fp_done"
            /\ fpResult' = Return(NullPayload)
  /\ UNCHANGED <<retries, cooldown, page, attempts, persistVars, callVars, iterVars, syncVars>>

InitFetch ==
  /\ pc = "fp_call"
  /\ retries \in 0..MaxRetries
  /\ cooldown \in Cooldowns
  /\ page = 1
  /\ attempt = 0
  /\ attempts = <<>>
  /\ reqCount = 0
  /\ sleeping = 0
  /\ fpResult = NoFetch
  /\ InitPersistVars /\ InitIterVars /\ InitSyncVars /\ InitCallVars

NextFetch == FpCall \/ FpReceive \/ FpWake

SpecFetch == InitFetch /\ [][NextFetch]_vars

\* the fetchPage call is over (returned or threw)
FpOver == pc = "fp_done"
\* the k-th attempt of the call got the status `code`
GotAt(k, code) == k <= Len(attempts) /\ attempts[k].code = code
AllGot(code) == \A k \in 1..Len(attempts) : attempts[k].code = code

C3_AuthNoRetry ==
  \A k \in 1..Len(attempts) :
    attempts[k].code \in {401, 403} =>
      /\ k = Len(attempts)
      /\ ~attempts[k].slept
      /\ reqCount = k
      /\ sleeping = 0
      /\ FpOver
      /\ fpResult.do = "throw"
      /\ fpResult.error.name = "AuthenticationError"

C3_Witness ==
  /\ Len(attempts) = 3 /\ GotAt(1, 429) /\ GotAt(2, 500) /\ GotAt(3, 403)
  /\ fpResult.error.name = "AuthenticationError"

ExtractResultsPropsFirst(payload) ==
  IF payload.tag = "null" THEN <<>>
  ELSE IF payload.props # None THEN payload.props[1]
  ELSE IF payload.results # None THEN payload.results[1]
  ELSE IF payload.tag = "array" THEN payload.items
  ELSE <<>>

\* extractResults(payload)
ExtractResults(payload) ==
  IF payload.tag = "null" THEN <<>>
  ELSE IF payload.results # None THEN payload.results[1]
  ELSE IF payload.props # None THEN payload.props[1]
  ELSE IF payload.tag = "array" THEN payload.items
  ELSE <<>>

\* a last-page test that is off by one
TotalPagesPassed(payload, p) ==
  /\ payload.totalPages # None
  /\ payload.totalPages[1] # 0
  /\ p > payload.totalPages[1]

\* payload.totalPages && page >= payload.totalPages
TotalPagesReached(payload, p) ==
  /\ payload.totalPages # None
  /\ payload.totalPages[1] # 0
  /\ p >= payload.totalPages[1]

\* an iteratePages that yields empty pages too
PageVerdictYieldEmpty(payload) ==
  IF payload.tag = "null" THEN "nopayload" ELSE "yield"

\* iteratePages on the payload of a page: stop without a payload, stop on
\* an empty result list, else yield the results
PageVerdict(payload) ==
  IF payload.tag = "null" THEN "nopayload"
  ELSE IF Len(ExtractResults(payload)) = 0 THEN "empty"
  ELSE "yield"

\* Object.entries(v) of a value that is not null: the entries of a mapping,
\* the indexed items of an array, nothing for a number (string and boolean
\* records are not among the inputs of the model)
Entries(v) ==
  IF v[1] = "obj" THEN v[2]
  ELSE IF v[1] = "arr" THEN [k \in 1..Len(v[2]) |-> <<ToString(k - 1), v[2][k]>>]
  ELSE <<>>

\* v[key] of a value that is not null: None stands for undefined
Get(v, key) ==
  IF v[1] # "obj" THEN None
  ELSE LET hasKey(entry) == entry[1] = key
           found == SelectSeq(v[2], hasKey)
       IN IF found = <<>> THEN None ELSE found[Len(found)][2]

\* Array.isArray(x), x a raw value or undefined
IsArray(x) == x # None /\ x[1] = "arr"

\* !payload: undefined, null, 0 and the empty string are falsy
Falsy(payload) ==
  payload = None \/ payload = Null \/ payload = Num(0) \/ payload = Str("")

\* a raw payload as extractResults and iteratePages look at it: whether it is
\* falsy, whether it is an array, which of payload.results and payload.props
\* is an array, and payload.totalPages when it is a number
PayloadOf(raw) ==
  IF Falsy(raw) THEN NullPayload
  ELSE LET results == Get(raw, "results")
           props == Get(raw, "props")
           totalPages == Get(raw, "totalPages")
       IN [tag |-> IF IsArray(raw) THEN "array" ELSE "object",
           items |-> IF IsArray(raw) THEN raw[2] ELSE <<>>,
           results |-> IF IsArray(results) THEN Some(results[2]) ELSE None,
           props |-> IF IsArray(props) THEN Some(props[2]) ELSE None,
           totalPages |-> IF totalPages # None /\ totalPages[1] = "num"
                            THEN Some(totalPages[2]) ELSE None]

\* Object.assign(target, source) on entry lists
RECURSIVE ObjectAssign(_, _)
ObjectAssign(target, source) ==
  IF source = <<>> THEN target
  ELSE ObjectAssign(MapSet(target, Head(source)[1], Head(source)[2]), Tail(source))

\* flattenMapping(obj, prefix): nested mappings are folded into their
\* parent under the key prefix__key; null, arrays and scalars are kept
RECURSIVE FlattenMapping(_, _)
FlattenMapping(obj, prefix) ==
  LET entries == Entries(obj)
      RECURSIVE upTo(_)
      upTo(n) ==
        IF n = 0 THEN <<>>
        ELSE LET key == entries[n][1]
                 value == entries[n][2]
                 newKey == IF prefix # "" THEN prefix \o "__" \o key ELSE key
             IN IF value[1] = "obj"
                  THEN ObjectAssign(upTo(n - 1), FlattenMapping(value, newKey))
                  ELSE MapSet(upTo(n - 1), newKey, value)
  IN upTo(Len(entries))

\* augmentWithUnits(baseRecord, units) when no unit is null
AugmentWithUnits(baseRecord, units) ==
  LET put(aug, unit, field, n) ==
        IF Get(unit, field) # None
          THEN MapSet(aug, field \o "_" \o ToString(n), Get(unit, field))
          ELSE aug
      RECURSIVE upTo(_)
      upTo(n) ==
        IF n = 0 THEN baseRecord
        ELSE put(put(put(upTo(n - 1), units[n], "price", n), units[n], "beds", n),
                 units[n], "bathrooms", n)
  IN upTo(Len(units))

\* Array.isArray(record.units) && record.units.length > 0
HasUnits(record) ==
  LET units == Get(record, "units")
  IN units # None /\ units[1] = "arr" /\ Len(units[2]) > 0

\* the statements of recordsToProperties outside its try block throw a
\* TypeError: Object.entries(null) in flattenMapping, unit.price of a null
\* unit in augmentWithUnits
RecordThrows(record) ==
  \/ record = Null
  \/ /\ HasUnits(record)
     /\ \E k \in 1..Len(Get(record, "units")[2]) : Get(record, "units")[2][k] = Null

\* the flattened record handed to ZillowPropertySchema.parse
FlattenedRecord(record) ==
  LET flattened == FlattenMapping(record, "")
  IN IF HasUnits(record)
       THEN MapSet(ObjectAssign(flattened,
                                AugmentWithUnits(flattened, Get(record, "units")[2])),
                   "units", Get(record, "units"))
       ELSE flattened

\* UnitSchema accepts the element of a units list
UnitParses(unit) ==
  /\ unit[1] = "obj"
  /\ \A f \in {"price", "beds", "bathrooms"} :
       Get(unit, f) = None \/ Get(unit, f)[1] = "num"

\* ZillowPropertySchema.parse succeeds on the flattened record (whose keys
\* are distinct): detailUrl is a string, every other field of the schema is
\* absent, null or of its type
ParsesAsProperty(flattened) ==
  /\ \E j \in 1..Len(flattened) :
       flattened[j][1] = "detailUrl" /\ flattened[j][2][1] = "str"
  /\ \A j \in 1..Len(flattened) :
       LET key == flattened[j][1]
           value == flattened[j][2]
       IN IF key = "detailUrl" THEN value[1] = "str"
          ELSE IF key \in {"longitude", "latitude", "price", "bedrooms", "bathrooms",
                           "livingArea"}
            THEN value[1] \in {"num", "null"}
          ELSE IF key \in {"propertyType", "address"} THEN value[1] \in {"str", "null"}
          ELSE IF key = "units"
            THEN \/ value[1] = "null"
                 \/ /\ value[1] = "arr"
                    /\ \A k \in 1..Len(value[2]) : UnitParses(value[2][k])
          ELSE TRUE

\* the ZillowProperty that ZillowPropertySchema.parse returns: the fields of
\* the schema only, null and undefined both held as None
ParsedProperty(flattened) ==
  LET opt(v) == IF v # None /\ v[1] \in {"num", "str"} THEN Some(v[2]) ELSE None
      unit(u) == [price |-> opt(Get(u, "price")), beds |-> opt(Get(u, "beds")),
                  bathrooms |-> opt(Get(u, "bathrooms"))]
      parsed(key, value) ==
        IF key = "detailUrl" THEN value[2]
        ELSE IF key = "units"
          THEN IF value[1] = "arr"
                 THEN Some([k \in 1..Len(value[2]) |-> unit(value[2][k])])
                 ELSE None
        ELSE opt(value)
      RECURSIVE upTo(_)
      upTo(n) ==
        IF n = 0 THEN Property("", None)
        ELSE IF flattened[n][1] \in DOMAIN Property("", None)
          THEN [upTo(n - 1) EXCEPT ![flattened[n][1]] =
                  parsed(flattened[n][1], flattened[n][2])]
          ELSE upTo(n - 1)
  IN upTo(Len(flattened))

\* the body of recordsToProperties' loop on one record: it throws, or the
\* record parses into a property, or a warning is logged
ToProperty(record) ==
  IF RecordThrows(record) THEN [threw |-> TRUE, parses |-> FALSE, property |-> None]
  ELSE LET flattened == FlattenedRecord(record)
       IN IF ParsesAsProperty(flattened)
            THEN [threw |-> FALSE, parses |-> TRUE,
                  property |-> Some(ParsedProperty(flattened))]
            ELSE [threw |-> FALSE, parses |-> FALSE, property |-> None]

\* ToProperty tabulated over the raw records of the model
ToPropertyOf == [record \in RawRecords |-> ToProperty(record)]

\* recordsToProperties(records): the properties of the records that parse,
\* in order, and the number of warnings logged; a record that throws
\* outside the try block ends the call with that error
RecordsToProperties(records) ==
  LET outcomes == [k \in 1..Len(records) |-> ToPropertyOf[records[k]]]
      parsed(outcome) == outcome.parses
      valid == SelectSeq(outcomes, parsed)
  IN IF \E k \in 1..Len(records) : outcomes[k].threw
       THEN [threw |-> TRUE, properties |-> <<>>, warnings |-> 0]
       ELSE [threw |-> FALSE,
             properties |-> [k \in 1..Len(valid) |-> valid[k].property[1]],
             warnings |-> Len(records) - Len(valid)]

\* LOCATIONS.slice(start, start + BATCH_SIZE)
BatchLocations(start) ==
  SubSeq(LOCATIONS, start + 1,
         IF start + BATCH_SIZE < Len(LOCATIONS) THEN start + BATCH_SIZE ELSE Len(LOCATIONS))

SyncBodies == {NoBody, ObjectBody(Some("bad key"), Some("E"), None)}

SyncPayloads ==
  {NullPayload,
   ObjectPayload(Some(<<>>), None, None),
   ObjectPayload(Some(<<RecA>>), None, None),
   ObjectPayload(Some(<<RecNoUrl, RecB>>), None, Some(1)),
   ObjectPayload(None, Some(<<RecB>>), Some(2))}

SyncResponses ==
  {OkResponse(d) : d \in SyncPayloads}
    \cup {HttpError(401, b) : b \in SyncBodies}
    \cup {HttpError(st, NoBody) : st \in ErrorStatuses}
    \cup {TransportError, NonAxiosError}

BatchDone(properties) == [ok |-> TRUE, error |-> NoError, properties |-> properties]
BatchFailed(error) == [ok |-> FALSE, error |-> error, properties |-> <<>>]

MissingKeyMessage == <<"Missing Zillow API key. Set ZILLOW_RAPIDAPI_KEY or RAPIDAPI_KEY environment variable.">>

SuccessResponse(collected, persisted, date) ==
  [status |-> 200, success |-> TRUE, error |-> <<>>, collected |-> collected,
   persisted |-> persisted, ingestionDate |-> date]
FailureResponse(message) ==
  [status |-> 500, success |-> FALSE, error |-> message, collected |-> 0,
   persisted |-> 0, ingestionDate |-> ""]

\* a handler that reports success whatever persistProperties did
SyncResponseAlwaysOk(res, collected, date) ==
  SuccessResponse(collected, res.value, date)

\* POST's response once persistProperties has returned or thrown
SyncResponse(res, collected, date) ==
  IF res.threw
    THEN FailureResponse(res.message)
    ELSE SuccessResponse(collected, res.value, date)

\* a collectProperties whose catch block skips the location on any error
CollectCatchesAll(error) == TRUE

\* collectProperties' catch block: `error instanceof NotFoundError` skips
\* the location, any other error is thrown again
CollectCatches(error) == error.name = "NotFoundError"

\* no fetchPage call is in progress
ClearFetch ==
  /\ page' = 1 /\ attempt' = 0 /\ attempts' = <<>> /\ reqCount' = 0
  /\ sleeping' = 0 /\ fpResult' = NoFetch
  /\ pagesFetched' = <<>> /\ yielded' = <<>> /\ iterEnd' = ""
  /\ UNCHANGED <<retries, cooldown>>

\* iteratePages calls fetchPage(params, p): first client.get of the page
StartFetchPage(p, fetchedBefore) ==
  /\ page' = p
  /\ attempt' = 1
  /\ attempts' = <<>>
  /\ sleeping' = 0
  /\ pagesFetched' = Append(fetchedBefore, SafePageNumber(p))
  /\ UNCHANGED <<retries, cooldown>>
  /\ IF 1 <= retries
       THEN /\ reqCount' = 1
            /\ fpResult' = NoFetch
            /\ iterEnd' = ""
            /\ elapsed' = 0
            /\ pc' = "awaiting"
       ELSE /\ reqCount' = 0
            /\ fpResult' = Return(NullPayload)
            /\ iterEnd' = "nopayload"
            /\ elapsed' = elapsed
            /\ pc' = "iterEnded"

\* collectProperties starts iterating the pages of location l of the batch
StartLocation(l) ==
  /\ loc' = l
  /\ yielded' = <<>>
  /\ StartFetchPage(1, <<>>)

\* POST calls collectProperties for the batch starting at index `start`
StartBatch(start) ==
  /\ i' = start
  /\ allRecords' = <<>>
  /\ StartLocation(1)

\* POST is entered: createZillowFetcher, then the first batch
SyncStart ==
  /\ pc = "idle"
  /\ \E keyPresent \in BOOLEAN :
       IF keyPresent /\ 0 < Len(LOCATIONS)
         THEN /\ allProperties' = <<>>
              /\ batchLog' = <<>>
              /\ response' = response
              /\ StartBatch(0)
         ELSE /\ pc' = "responded"
              /\ response' = FailureResponse(MissingKeyMessage)
              /\ UNCHANGED <<fetchVars, iterVars, i, loc, allRecords, allProperties,
                             batchLog, elapsed>>
  /\ UNCHANGED <<persistVars, callVars>>

\* client.get settles: the rest of fetchPage's loop body, then what
\* iteratePages, collectProperties and POST do with the outcome
ReceiveFrom(responses) ==
  /\ pc = "awaiting"
  /\ \E resp \in responses :
       LET step == FetchPageAttempt(attempt, retries, cooldown, resp)
           results == ExtractResults(step.payload)
       IN /\ attempts' = Append(attempts, Attempted(resp, step))
          /\ IF step.do = "retry"
               THEN /\ pc' = "retryWait"
                    /\ sleeping' = step.waitMs
                    /\ elapsed' = elapsed + step.waitMs
                    /\ UNCHANGED <<fpResult, iterEnd, yielded, allRecords, batchLog>>
             ELSE IF step.do = "throw"
               THEN /\ fpResult' = step
                    /\ sleeping' = 0
                    /\ UNCHANGED <<yielded, allRecords, elapsed>>
                    /\ IF CollectCatches(step.error)
                         THEN /\ pc' = "iterEnded"
                              /\ iterEnd' = "notfound"
                              /\ batchLog' = batchLog
                         ELSE /\ pc' = "batchCaught"
                              /\ iterEnd' = "throw"
                              /\ batchLog' = Append(batchLog, BatchFailed(step.error))
             ELSE IF PageVerdict(step.payload) # "yield"
               THEN /\ fpResult' = step
                    /\ sleeping' = 0
                    /\ pc' = "iterEnded"
                    /\ iterEnd' = PageVerdict(step.payload)
                    /\ UNCHANGED <<yielded, allRecords, batchLog, elapsed>>
             ELSE /\ fpResult' = step
                  /\ yielded' = Append(yielded, page)
                  /\ allRecords' = allRecords \o results
                  /\ batchLog' = batchLog
                  /\ IF page < MAX_PAGES
                       THEN /\ pc' = "pageWait"
                            /\ sleeping' = RATE_LIMIT_WAIT_MS
                            /\ elapsed' = elapsed + RATE_LIMIT_WAIT_MS
                            /\ iterEnd' = ""
                       ELSE /\ pc' = "iterEnded"
                            /\ sleeping' = 0
                            /\ elapsed' = elapsed
                            /\ iterEnd' = IF TotalPagesReached(step.payload, page)
                                            THEN "totalPages" ELSE "maxPages"
  /\ UNCHANGED <<retries, cooldown, page, attempt, reqCount, pagesFetched,
                 i, loc, allProperties, response, persistVars, callVars>>

Receive == ReceiveFrom(SyncResponses)

\* a retry loop that does not advance its attempt counter
RetryWakeSameAttempt ==
  /\ pc = "retryWait"
  /\ attempt <= retries
  /\ attempt' = attempt
  /\ reqCount' = reqCount + 1
  /\ sleeping' = 0
  /\ elapsed' = 0
  /\ pc' = "awaiting"
  /\ UNCHANGED <<retries, cooldown, page, attempts, fpResult, iterVars, persistVars, callVars,
                 i, loc, allRecords, allProperties, batchLog, response>>

\* the back-off sleep is over: next attempt of the same page
RetryWake ==
  /\ pc = "retryWait"
  /\ attempt + 1 <= retries
  /\ attempt' = attempt + 1
  /\ reqCount' = reqCount + 1
  /\ sleeping' = 0
  /\ elapsed' = 0
  /\ pc' = "awaiting"
  /\ UNCHANGED <<retries, cooldown, page, attempts, fpResult, iterVars, persistVars, callVars,
                 i, loc, allRecords, allProperties, batchLog, response>>

\* the inter-page sleep is over: the total-page check, then the next page
PageWake ==
  /\ pc = "pageWait"
  /\ IF TotalPagesReached(fpResult.payload, page)
       THEN /\ pc' = "iterEnded"
            /\ iterEnd' = "totalPages"
            /\ sleeping' = 0
            /\ UNCHANGED <<retries, cooldown, page, attempt, attempts, reqCount,
                           fpResult, pagesFetched, elapsed>>
       ELSE IF page + 1 <= MAX_PAGES
         THEN StartFetchPage(page + 1, pagesFetched)
         ELSE /\ pc' = "iterEnded"
              /\ iterEnd' = "maxPages"
              /\ sleeping' = 0
              /\ UNCHANGED <<retries, cooldown, page, attempt, attempts, reqCount,
                             fpResult, pagesFetched, elapsed>>
  /\ UNCHANGED <<yielded, persistVars, callVars, i, loc, allRecords, allProperties, batchLog,
                 response>>

\* the page generator of a location is exhausted: the next location, or the
\* end of collectProperties and POST's handling of the batch's properties
NextLocation ==
  /\ pc = "iterEnded"
  /\ IF loc < Len(BatchLocations(i))
       THEN /\ StartLocation(loc + 1)
            /\ UNCHANGED <<i, allRecords, allProperties, batchLog>>
       ELSE LET res == RecordsToProperties(allRecords)
                properties == res.properties
            IN IF res.threw
                 THEN /\ pc' = "batchCaught"
                      /\ batchLog' = Append(batchLog, BatchFailed(TypeError))
                      /\ UNCHANGED <<fetchVars, iterVars, i, loc, allRecords,
                                     allProperties, elapsed>>
                 ELSE
               /\ allProperties' = allProperties \o properties
               /\ batchLog' = Append(batchLog, BatchDone(properties))
               /\ page' = 1 /\ attempt' = 0 /\ attempts' = <<>> /\ reqCount' = 0
               /\ fpResult' = NoFetch
               /\ pagesFetched' = <<>> /\ yielded' = <<>> /\ iterEnd' = ""
               /\ UNCHANGED <<retries, cooldown, loc, allRecords>>
               /\ IF i + BATCH_SIZE < Len(LOCATIONS)
                    THEN /\ pc' = "batchWait"
                         /\ sleeping' = RATE_LIMIT_WAIT_MS
                         /\ elapsed' = elapsed + RATE_LIMIT_WAIT_MS
                         /\ i' = i
                    ELSE /\ pc' = "persisting"
                         /\ sleeping' = 0
                         /\ elapsed' = elapsed
                         /\ i' = i + BATCH_SIZE
  /\ UNCHANGED <<response, persistVars, callVars>>

\* a handler that persists what it has collected after every batch
BatchWakePersisting ==
  /\ pc = "batchWait"
  /\ StartBatch(i + BATCH_SIZE)
  /\ \E today \in Dates :
       LET res == PersistProperties(store, allProperties, Some(today), today, "rows")
       IN /\ store' = res.rows
          /\ persistResult' = [res EXCEPT !.rows = {}]
          /\ latest' = IF res.calls = 0 THEN latest
                       ELSE LatestAfter(latest, allProperties, today)
  /\ UNCHANGED <<allProperties, batchLog, response, callVars>>

\* the inter-batch sleep is over: i += BATCH_SIZE and the next batch
BatchWake ==
  /\ pc = "batchWait"
  /\ StartBatch(i + BATCH_SIZE)
  /\ UNCHANGED <<allProperties, batchLog, response, persistVars, callVars>>

\* a handler whose catch block gives up and answers with the batch's error
NextBatchAbort ==
  /\ pc = "batchCaught"
  /\ pc' = "responded"
  /\ response' = FailureResponse(batchLog[Len(batchLog)].error.message)
  /\ UNCHANGED <<fetchVars, iterVars, i, loc, allRecords, allProperties, batchLog,
                 elapsed, persistVars, callVars>>

\* a handler whose catch block keeps what the failed batch had accumulated
NextBatchSalvage ==
  /\ pc = "batchCaught"
  /\ IF i + BATCH_SIZE < Len(LOCATIONS)
       THEN StartBatch(i + BATCH_SIZE)
       ELSE /\ i' = i + BATCH_SIZE
            /\ pc' = "persisting"
            /\ ClearFetch
            /\ UNCHANGED <<loc, allRecords, elapsed>>
  /\ allProperties' = allProperties \o RecordsToProperties(allRecords).properties
  /\ UNCHANGED <<batchLog, response, persistVars, callVars>>

\* POST's catch block has logged the batch's error: i += BATCH_SIZE and the
\* next batch, or the end of the loop
NextBatch ==
  /\ pc = "batchCaught"
  /\ IF i + BATCH_SIZE < Len(LOCATIONS)
       THEN StartBatch(i + BATCH_SIZE)
       ELSE /\ i' = i + BATCH_SIZE
            /\ pc' = "persisting"
            /\ ClearFetch
            /\ UNCHANGED <<loc, allRecords, elapsed>>
  /\ UNCHANGED <<allProperties, batchLog, response, persistVars, callVars>>

\* persistProperties(allProperties, ingestionDate) and the response
Persist ==
  /\ pc = "persisting"
  /\ \E today \in Dates, answer \in StoreAnswers :
       LET res == PersistProperties(store, allProperties, Some(today), today, answer)
       IN /\ store' = res.rows
          /\ persistResult' = [res EXCEPT !.rows = {}]
          /\ latest' = IF res.threw \/ res.calls = 0 THEN latest
                       ELSE LatestAfter(latest, allProperties, today)
          /\ response' = SyncResponse(res, Len(allProperties), today)
  /\ pc' = "responded"
  /\ UNCHANGED <<fetchVars, iterVars, i, loc, allRecords, allProperties, batchLog, elapsed,
                 callVars>>

Init ==
  /\ pc = "idle"
  /\ InitPersistVars /\ InitFetchVars /\ InitIterVars /\ InitSyncVars /\ InitCallVars

Next ==
  \/ SyncStart
  \/ Receive
  \/ RetryWake
  \/ PageWake
  \/ NextLocation
  \/ BatchWake
  \/ NextBatch
  \/ Persist

Spec == Init /\ [][Next]_vars

\* ------------------------------------------------------------------------
\* Properties of the sync pipeline
\* ------------------------------------------------------------------------

OneTo(n) == [k \in 1..n |-> k]

\* a fetchPage call of the running sync is in progress or just over
Fetching == pc \in {"awaiting", "retryWait", "pageWait", "iterEnded"}

\* the loop over the batches has run to its end
LoopOver == i >= Len(LOCATIONS)

NumBatches == (Len(LOCATIONS) + BATCH_SIZE - 1) \div BATCH_SIZE

RECURSIVE LoggedProperties(_)
LoggedProperties(log) ==
  IF log = <<>> THEN <<>>
  ELSE LoggedProperties(SubSeq(log, 1, Len(log) - 1)) \o log[Len(log)].properties

EmptyPage(payload) == payload.tag = "null" \/ Len(ExtractResults(payload)) = 0

\* C4: a 404 on any attempt ends the fetchPage call at once with the payload
\* {results: []}: no error, no sleep, no further request; the iteration of
\* that location stops and yields nothing for that page.
C4_NotFoundIsEmpty ==
  \A k \in 1..Len(attempts) :
    attempts[k].code = 404 =>
      /\ k = Len(attempts)
      /\ ~attempts[k].slept
      /\ reqCount = k
      /\ sleeping = 0
      /\ fpResult = Return(ObjectPayload(Some(<<>>), None, None))
      /\ pc = "iterEnded"
      /\ iterEnd = "empty"
      /\ \A n \in 1..Len(yielded) : yielded[n] # page
      /\ pagesFetched[Len(pagesFetched)] = page

C4_Witness ==
  /\ GotAt(1, 429) /\ GotAt(2, 404) /\ Len(attempts) = 2
  /\ page = 2 /\ yielded = <<1>> /\ pc = "iterEnded"

\* C6: pages are fetched in the order 1, 2, 3, ...; every page before the
\* first page k that comes back without payload or with no results is
\* yielded, page k is fetched and not yielded (k-1 batches, at most
\* MAX_PAGES), and the iteration requests nothing after page k.
C6_Shape ==
  /\ pagesFetched = OneTo(Len(pagesFetched))
  /\ yielded = OneTo(Len(yielded))
  /\ Len(pagesFetched) <= MAX_PAGES
  /\ Len(yielded) <= MAX_PAGES
  /\ Len(yielded) <= Len(pagesFetched)
  /\ ((fpResult.do = "return" /\ EmptyPage(fpResult.payload))
        \/ iterEnd \in {"nopayload", "empty"}) =>
       /\ pc = "iterEnded"
       /\ iterEnd \in {"nopayload", "empty"}
       /\ pagesFetched = OneTo(page)
       /\ yielded = OneTo(page - 1)

C6_StopsAtEmptyPage ==
  /\ []C6_Shape
  /\ [][pc = "iterEnded" => (Len(pagesFetched') <= 1 /\ yielded' = <<>>)]_vars

\* page 3 of a location came back empty: 2 batches, 3 page fetches
C6_Witness ==
  /\ iterEnd = "empty" /\ page = 3
  /\ yielded = <<1, 2>> /\ pagesFetched = <<1, 2, 3>>
  /\ Len(allRecords) >= 2

\* C7: when the payload of page p declares a total-page count t <= p, the
\* batch of page p is yielded and the iteration ends without requesting
\* page p+1, also when p < MAX_PAGES.
C7_LastPageState ==
  (fpResult.do = "return" /\ ~EmptyPage(fpResult.payload)
     /\ fpResult.payload.totalPages # None
     /\ fpResult.payload.totalPages[1] >= 1
     /\ page >= fpResult.payload.totalPages[1]) =>
    /\ yielded = OneTo(page)
    /\ pagesFetched = OneTo(page)
    /\ pc \in {"pageWait", "iterEnded"}
    /\ pc = "pageWait" => page < MAX_PAGES
    /\ pc = "iterEnded" => iterEnd = "totalPages"

C8_AuthAbortsSync ==
  \A b \in 1..Len(batchLog) :
    batchLog[b].error.name = "AuthenticationError" =>
      /\ Len(batchLog) = b
      /\ ~Fetching
      /\ ~response.success

\* C9: a batch whose collectProperties threw is caught and logged; the loop
\* goes on with every later batch in order; persistProperties gets the
\* properties of all batches that succeeded; the batch's error is not in
\* the response.
C9_BatchErrorSwallowed ==
  /\ Fetching => i = BATCH_SIZE * Len(batchLog)
  /\ pc \in {"batchCaught", "batchWait"} => i = BATCH_SIZE * (Len(batchLog) - 1)
  /\ pc = "batchCaught" => ~batchLog[Len(batchLog)].ok
  /\ allProperties = LoggedProperties(batchLog)
  /\ (pc = "persisting" \/ (pc = "responded" /\ batchLog # <<>>)) =>
       /\ LoopOver
       /\ Len(batchLog) = NumBatches
  /\ (pc = "responded" /\ batchLog # <<>>) =>
       /\ \A b \in 1..Len(batchLog) :
            ~batchLog[b].ok => response.error # batchLog[b].error.message
       /\ ~persistResult.threw =>
            /\ response.success
            /\ \A n \in 1..Len(allProperties) :
                 \E row \in store :
                   /\ row.detail_url = allProperties[n].detailUrl
                   /\ row.ingestion_date = response.ingestionDate

C9_Witness ==
  /\ pc = "responded" /\ response.success
  /\ Len(batchLog) = 2
  /\ ~batchLog[1].ok /\ batchLog[1].error.name = "RateLimitError"
  /\ batchLog[2].ok /\ Len(batchLog[2].properties) >= 1
  /\ store # {}

\* C10: when persistProperties throws the response is 500 with
\* {success: false, error: message}; when it returns the response is
\* {success: true} with collected = number of properties of the batches that
\* succeeded and persisted = the returned value.
C10_ResponseFollowsPersist ==
  (pc = "responded" /\ LoopOver) =>
    IF persistResult.threw
      THEN response = FailureResponse(persistResult.message)
      ELSE /\ response.status = 200
           /\ response.success
           /\ response.collected = Len(LoggedProperties(batchLog))
           /\ response.persisted = persistResult.value

C10_Witness ==
  /\ pc = "responded" /\ LoopOver
  /\ persistResult.threw
  /\ response.status = 500 /\ ~response.success
  /\ response.error = <<"Failed to persist properties: ", StoreErrorMessage>>
  /\ Len(LoggedProperties(batchLog)) >= 2


\* C11: between the end of batch i and the first request of batch i+1 the
\* inter-batch delay of RATE_LIMIT_WAIT_MS always elapses, whether batch i
\* succeeded or failed: a step that issues the first request of a later
\* batch is the end of an inter-batch sleep of that duration.
C11_DelayBetweenBatches ==
  [][(i' > i /\ pc' = "awaiting")
       => (pc = "batchWait" /\ sleeping = RATE_LIMIT_WAIT_MS)]_vars

\* C12: between any two consecutive upstream requests of a sync at least the
\* configured rate-limit wait elapses, the last request for one location
\* and the first request for the next location included: whenever a request
\* other than the first is issued, the sleeps since the previous request
\* add up to RATE_LIMIT_WAIT_MS or more.
C12_WaitBetweenRequests ==
  [][(pc' = "awaiting" /\ pc \notin {"awaiting", "idle"})
       => elapsed >= RATE_LIMIT_WAIT_MS]_vars

\* C13: at most one upstream request is outstanding at any time, and the
\* requests are issued in strictly increasing (batch, location, page,
\* attempt) order: page p+1 of a location is requested only after the
\* results of page p were yielded and appended to the records collected,
\* and the first request of a location only after the iteration of the
\* previous location ended.
C13_OneRequestInOrder ==
  /\ [](Fetching => reqCount - Len(attempts) = (IF pc = "awaiting" THEN 1 ELSE 0))
  /\ [][(pc # "awaiting" /\ pc' = "awaiting" /\ pc # "idle")
          => LET before == <<i, loc, page, attempt>>
                 after == <<i', loc', page', attempt'>>
                 results == ExtractResults(fpResult.payload)
             IN /\ \E k \in 1..4 :
                     /\ before[k] < after[k]
                     /\ \A j \in 1..(k - 1) : before[j] = after[j]
                /\ (i' = i /\ loc' = loc /\ page' # page)
                     => /\ page' = page + 1 /\ attempt' = 1
                        /\ pc = "pageWait"
                        /\ \E k \in DOMAIN yielded : yielded[k] = page
                        /\ Len(results) <= Len(allRecords)
                        /\ SubSeq(allRecords, Len(allRecords) - Len(results) + 1,
                                  Len(allRecords)) = results
                /\ (i' = i /\ loc' # loc)
                     => /\ loc' = loc + 1 /\ page' = 1 /\ attempt' = 1
                        /\ pc = "iterEnded" /\ iterEnd # ""
                /\ (i' # i)
                     => /\ i' = i + BATCH_SIZE /\ loc' = 1 /\ page' = 1 /\ attempt' = 1
                        /\ Len(batchLog) = i' \div BATCH_SIZE]_vars

\* the second attempt for page 2 of the first location of batch 2 is
\* outstanding, batch 1 having gone through both its locations
C13_Witness ==
  /\ pc = "awaiting"
  /\ i = BATCH_SIZE /\ page = 2 /\ attempt = 2
  /\ Len(batchLog) = 1 /\ batchLog[1].ok

\* C14: in collectProperties a location for which the upstream answers not
\* found contributes no record and the next location is still processed;
\* any other error raised while iterating (authentication, rate limit after
\* the retries, generic API error, unknown error) makes collectProperties
\* throw, and the batch yields no property at all.
C14_NotFoundSkipsOthersThrow ==
  /\ [][(pc = "awaiting" /\ pc' # "awaiting")
          => LET last == attempts'[Len(attempts')]
             IN /\ last.code = 404
                     => /\ pc' = "iterEnded" /\ fpResult'.do = "return"
                        /\ allRecords' = allRecords
                        /\ batchLog' = batchLog
                /\ (\/ last.code \in {401, 403, 0 - 1}
                    \/ (last.code \in {429, 500, 0} /\ attempt = retries))
                     => /\ pc' = "batchCaught"
                        /\ fpResult'.error.name =
                             (IF last.code \in {401, 403} THEN "AuthenticationError"
                              ELSE IF last.code = 429 THEN "RateLimitError"
                              ELSE IF last.code = 0 - 1 THEN "Error"
                              ELSE "ZillowAPIError")
                        /\ batchLog' = Append(batchLog, [ok |-> FALSE,
                                                         error |-> fpResult'.error,
                                                         properties |-> <<>>])
                        /\ allProperties' = allProperties]_vars
  /\ [][(pc = "iterEnded" /\ loc < Len(BatchLocations(i)))
          => /\ pc' = "awaiting" /\ loc' = loc + 1 /\ page' = 1
             /\ allRecords' = allRecords]_vars
  /\ [][pc = "batchCaught" => allProperties' = allProperties]_vars

\* the second location of a batch ends on a rate-limit error after the
\* retries, the records of the first location being lost with it
C14_Witness ==
  /\ pc = "batchCaught"
  /\ loc = 2 /\ allRecords # <<>>
  /\ attempts[Len(attempts)].code = 429
  /\ batchLog[Len(batchLog)].error.name = "RateLimitError"
  /\ allProperties = <<>>

\* C21: persistProperties called with an empty list returns 0 and issues no
\* store call, and the store is left unchanged: a sync in which no batch
\* produced a property writes nothing and reports 0 persisted.
C21_EmptyListWritesNothing ==
  [][(pc = "persisting" /\ allProperties = <<>>)
       => /\ persistResult'.calls = 0
          /\ ~persistResult'.threw /\ persistResult'.value = 0
          /\ store' = store
          /\ response'.success /\ response'.persisted = 0]_vars

\* a sync whose batches all ended without a property has answered
C21_Witness ==
  /\ pc = "responded"
  /\ allProperties = <<>>
  /\ Len(batchLog) = NumBatches
  /\ persistResult.calls = 0 /\ persistResult.value = 0
  /\ response.status = 200

\* C26: when a page fetch throws while collectProperties is at location k of
\* a batch, the raw records accumulated from locations 1..k-1 of that batch
\* are discarded: they are neither returned nor later persisted, while the
\* properties of the batches that succeeded are kept and persisted.
C26_FailedBatchRecordsDiscarded ==
  /\ [](pc = "batchCaught"
          => /\ batchLog[Len(batchLog)].properties = <<>>
             /\ allProperties
                  = LoggedProperties(SubSeq(batchLog, 1, Len(batchLog) - 1)))
  /\ [][pc = "batchCaught"
          => /\ allProperties' = allProperties
             /\ store' = store
             /\ (pc' = "awaiting" => allRecords' = <<>>)]_vars
  /\ [][(pc = "persisting" /\ persistResult'.calls = 1 /\ ~persistResult'.threw)
          => LET kept == LoggedProperties(batchLog)
             IN {row.detail_url : row \in store'}
                  = {kept[n].detailUrl : n \in 1..Len(kept)}]_vars

\* the second location's fetch threw after the first had yielded records,
\* and nothing of the batch reached the handler
C26_Witness ==
  /\ pc = "batchCaught"
  /\ loc = 2 /\ yielded = <<>> /\ Len(allRecords) >= 1
  /\ batchLog[Len(batchLog)].error.name = "ZillowAPIError"
  /\ allProperties = <<>>

\* C28: each POST /sync invocation calls persistProperties at most once, and
\* only after the last batch has been processed: no store write happens
\* while a batch is still to be fetched, and all records written by the call
\* carry the same ingestion date.
C28_OnePersistAfterLastBatch ==
  /\ [][persistVars' # persistVars
          => /\ pc = "persisting" /\ pc' = "responded"
             /\ LoopOver /\ Len(batchLog) = NumBatches
             /\ persistResult = NoResult
             /\ \A row \in store' \ store :
                  row.ingestion_date = response'.ingestionDate]_vars
  /\ [][pc = "responded" => pc' = "responded"]_vars
  /\ [](pc # "responded" => store = {} /\ persistResult.calls = 0)
  /\ [](persistResult.calls <= 1)

\* the properties of two batches were written by one call, under one date
C28_Witness ==
  /\ pc = "responded"
  /\ Len(batchLog) = NumBatches
  /\ \A b \in 1..Len(batchLog) : batchLog[b].ok
  /\ persistResult.calls = 1 /\ ~persistResult.threw
  /\ Cardinality(store) = 2
  /\ \A row \in store : row.ingestion_date = "2024-01-02"

\* one response for every way fetchPage and iteratePages can go on: a page
\* of records, a last page, an empty page, not found, rejected credentials,
\* rate limited, a server error
LiveResponses ==
  {OkResponse(ObjectPayload(Some(<<RecA>>), None, None)),
   OkResponse(ObjectPayload(None, Some(<<RecB>>), Some(2))),
   OkResponse(ObjectPayload(Some(<<>>), None, None)),
   HttpError(404, NoBody), HttpError(401, NoBody), HttpError(429, NoBody),
   HttpError(500, NoBody)}

ReceiveLive == ReceiveFrom(LiveResponses)

\* the steps of a fetch in progress: an upstream request returns, a sleep
\* ends, the handler runs on (the handler is sequential, so at most one of
\* them is enabled at a time)
FetchStep ==
  \/ ReceiveLive
  \/ RetryWake
  \/ PageWake
  \/ NextLocation
  \/ BatchWake
  \/ NextBatch

\* the store call returns: Persist is enabled exactly in the states where
\* the handler awaits persistProperties and every Persist step leaves them,
\* so its weak fairness is that the handler does not await the store forever
StoreReturns == []<>(pc # "persisting")

NextLive ==
  \/ SyncStart
  \/ ReceiveLive
  \/ RetryWake
  \/ PageWake
  \/ NextLocation
  \/ BatchWake
  \/ NextBatch
  \/ Persist

SpecLive == Init /\ [][NextLive]_vars /\ WF_vars(FetchStep) /\ StoreReturns

\* the place of the request in flight among all (location, page, attempt)
\* slots of the sync, in the order the loops visit them
RequestSlot ==
  ((i + loc - 1) * MAX_PAGES + (page - 1)) * retries + attempt

\* C27: if every upstream request and every store call returns, each POST
\* /sync invocation sends a response, after at most
\* |LOCATIONS| * maxPages * retries upstream requests: fetchPage issues at
\* most `retries` requests per page, iteratePages fetches at most maxPages
\* pages per location, and every request takes a later slot than the one
\* before it.
C27_RespondsAfterBoundedRequests ==
  /\ (pc # "idle") ~> (pc = "responded")
  /\ [](Fetching => /\ reqCount <= retries
                     /\ Len(pagesFetched) <= MAX_PAGES
                     /\ i + loc <= Len(LOCATIONS))
  /\ [][pc' = "awaiting"
          => /\ 1 <= RequestSlot'
             /\ RequestSlot' <= Len(LOCATIONS) * MAX_PAGES * retries
             /\ (pc # "idle" => RequestSlot < RequestSlot')]_vars

\* a sync whose batches all returned properties has persisted and answered
C27_Witness ==
  /\ pc = "responded"
  /\ Len(batchLog) = NumBatches
  /\ \A b \in 1..Len(batchLog) : batchLog[b].ok /\ batchLog[b].properties # <<>>
  /\ persistResult.calls = 1
  /\ response.status = 200

\* ------------------------------------------------------------------------
\* recordsToProperties, deduplicateByDetailUrl, generateRecordId and
\* propertyToRecord called directly
\* ------------------------------------------------------------------------

\* longest list of raw records handed to recordsToProperties
MaxRecords == 2

\* longest list of records handed to deduplicateByDetailUrl
MaxRows == 3

\* database records of the same ingestion date: each URL with two prices
DedupInputs == {PropertyToRecord(p, "2024-01-01") : p \in PersistInputs}

\* properties to derive keys from: the empty URL is a valid input
KeyInputs == {Property(u, p) : u \in DetailUrls \cup {""}, p \in PersistPrices}

\* prices in thousandths: absent, zero, exact cents, a half cent, negative
Prices == {None, Some(0), Some(1599990), Some(2000500), Some(1234565), Some(0 - 1505)}

PriceInputs == {Property(u, p) : u \in DetailUrls, p \in Prices}

CallRecordsToProperties ==
  /\ pc = "call_recordsToProperties"
  /\ result' = RecordsToProperties(args)
  /\ pc' = "done_recordsToProperties"
  /\ UNCHANGED <<args, persistVars, fetchVars, iterVars, syncVars>>

CallDeduplicateByDetailUrl ==
  /\ pc = "call_deduplicateByDetailUrl"
  /\ result' = DeduplicateByDetailUrl(args)
  /\ pc' = "done_deduplicateByDetailUrl"
  /\ UNCHANGED <<args, persistVars, fetchVars, iterVars, syncVars>>

\* generateRecordId on two properties
CallGenerateRecordId ==
  /\ pc = "call_generateRecordId"
  /\ result' = <<GenerateRecordId(args[1]), GenerateRecordId(args[2])>>
  /\ pc' = "done_generateRecordId"
  /\ UNCHANGED <<args, persistVars, fetchVars, iterVars, syncVars>>

\* propertyToRecord(property, ingestionDate)
CallPropertyToRecord ==
  /\ pc = "call_propertyToRecord"
  /\ result' = PropertyToRecord(args[1], args[2])
  /\ pc' = "done_propertyToRecord"
  /\ UNCHANGED <<args, persistVars, fetchVars, iterVars, syncVars>>

\* tables persistProperties can find: empty, or left by an earlier call
PersistTables ==
  {{}, {PropertyToRecord(Property("/a", None), "2024-01-01")}}

PersistArgs ==
  [rows : PersistTables,
   properties : SeqsUpTo(PersistInputs, MaxRecords),
   ingestionDate : {None, Some("2024-01-02")},
   answer : StoreAnswers]

\* persistProperties(properties, ingestionDate) on the table args.rows, the
\* store giving args.answer; the result carries the table afterwards
CallPersistProperties ==
  /\ pc = "call_persistProperties"
  /\ result' = PersistProperties(args.rows, args.properties, args.ingestionDate,
                                  "2024-01-03", args.answer)
  /\ pc' = "done_persistProperties"
  /\ UNCHANGED <<args, persistVars, fetchVars, iterVars, syncVars>>

\* raw payloads: undefined, null, falsy and other primitives, arrays, and
\* mappings whose results and props fields are absent, arrays (also empty
\* ones) or something else
ExtractInputs ==
  {None, Null, Num(0), Str(""), Num(7), Str("ok"),
   Arr(<<>>), Arr(<<RecA, RecB>>),
   Obj(<<>>),
   Obj(<< <<"other", Str("data")>> >>),
   Obj(<< <<"results", Arr(<<RecA>>)>> >>),
   Obj(<< <<"props", Arr(<<RecB>>)>> >>),
   Obj(<< <<"results", Arr(<<RecA>>)>>, <<"props", Arr(<<RecB>>)>> >>),
   Obj(<< <<"props", Arr(<<RecB>>)>>, <<"results", Arr(<<RecA>>)>> >>),
   Obj(<< <<"results", Arr(<<>>)>>, <<"props", Arr(<<RecB>>)>> >>),
   Obj(<< <<"results", Null>>, <<"props", Arr(<<RecB>>)>> >>),
   Obj(<< <<"results", Obj(<< <<"0", RecA>> >>)>>, <<"props", Arr(<<RecB>>)>> >>),
   Obj(<< <<"results", Str("none")>>, <<"props", Num(3)>> >>),
   Obj(<< <<"results", Num(1)>> >>),
   Obj(<< <<"props", Arr(<<RecA, RecNoUrl>>)>>, <<"totalPages", Num(2)>> >>)}

\* extractResults(payload)
CallExtractResults ==
  /\ pc = "call_extractResults"
  /\ result' = ExtractResults(PayloadOf(args))
  /\ pc' = "done_extractResults"
  /\ UNCHANGED <<args, persistVars, fetchVars, iterVars, syncVars>>

\* mappings handed to flattenMapping: flat, nested to several levels, with
\* arrays (also of mappings), null values and empty mappings inside, with an
\* empty key, and with a key that already holds the separator
FlattenInputs ==
  {Obj(<<>>),
   Obj(<< <<"address", Obj(<< <<"street", Str("123 Main St")>>,
                              <<"city", Str("Nashville")>> >>)>>,
          <<"price", Num(2000)>> >>),
   Obj(<< <<"location", Obj(<< <<"address",
             Obj(<< <<"street", Obj(<< <<"number", Num(123)>>,
                                       <<"name", Str("Main St")>> >>)>> >>)>> >>)>> >>),
   Obj(<< <<"tags", Arr(<<Str("apartment"), Str("luxury")>>)>>,
          <<"metadata", Obj(<< <<"photos", Arr(<<Str("photo1.jpg")>>)>> >>)>> >>),
   Obj(<< <<"units", Arr(<< Obj(<< <<"price", Num(1500)>> >>) >>)>>,
          <<"hdpData", Obj(<< <<"homeInfo", Null>>, <<"zpid", Num(7)>> >>)>>,
          <<"detailUrl", Null>> >>),
   Obj(<< <<"attributes", Obj(<<>>)>>, <<"price", Num(2000)>> >>),
   Obj(<< <<"", Obj(<< <<"b", Num(1)>> >>)>> >>),
   Obj(<< <<"a", Obj(<< <<"b", Num(1)>> >>)>>, <<"a__b", Num(2)>> >>)}

\* flattenMapping(obj)
CallFlattenMapping ==
  /\ pc = "call_flattenMapping"
  /\ result' = FlattenMapping(args, "")
  /\ pc' = "done_flattenMapping"
  /\ UNCHANGED <<args, persistVars, fetchVars, iterVars, syncVars>>

InitCalls ==
  /\ InitPersistVars /\ InitFetchVars /\ InitIterVars /\ InitSyncVars
  /\ result = None
  /\ \/ /\ pc = "call_recordsToProperties"
        /\ args \in SeqsUpTo(RawRecords, MaxRecords)
     \/ /\ pc = "call_deduplicateByDetailUrl"
        /\ args \in SeqsUpTo(DedupInputs, MaxRows)
     \/ /\ pc = "call_generateRecordId"
        /\ args \in KeyInputs \X KeyInputs
     \/ /\ pc = "call_propertyToRecord"
        /\ args \in PriceInputs \X Dates
     \/ /\ pc = "call_persistProperties"
        /\ args \in PersistArgs
     \/ /\ pc = "call_extractResults"
        /\ args \in ExtractInputs
     \/ /\ pc = "call_flattenMapping"
        /\ args \in FlattenInputs

NextCalls ==
  \/ CallRecordsToProperties
  \/ CallDeduplicateByDetailUrl
  \/ CallGenerateRecordId
  \/ CallPropertyToRecord
  \/ CallPersistProperties
  \/ CallExtractResults
  \/ CallFlattenMapping

SpecCalls == InitCalls /\ [][NextCalls]_vars

\* C15: for every sequence of raw records, whatever their shape (a record
\* that is null or not a mapping, a units list holding a null or ill-typed
\* element, a missing or non-string detailUrl), recordsToProperties returns
\* normally: a malformed record removes only itself, the call never throws,
\* and every record that yields a property on its own yields it in the batch.
C15_MalformedRecordDropsOnlyItself ==
  pc = "done_recordsToProperties"
    => /\ ~result.threw
       /\ \A k \in 1..Len(args) :
            LET alone == RecordsToProperties(<<args[k]>>)
            IN (~alone.threw /\ Len(alone.properties) = 1)
                 => \E n \in 1..Len(result.properties) :
                      result.properties[n] = alone.properties[1]

\* C16: recordsToProperties returns exactly the validated form of the input
\* records that carry a string detailUrl and well-typed optional fields, in
\* the order of the input; every other record is dropped with a warning,
\* the output is never longer than the input, and the empty input gives the
\* empty output.
C16_ValidatedInOrder ==
  pc = "done_recordsToProperties"
    => LET typed(v, tags) == v = None \/ v[1] \in tags
           unitTyped(u) ==
             /\ u[1] = "obj"
             /\ \A f \in {"price", "beds", "bathrooms"} : typed(Get(u, f), {"num"})
           wellTyped(r) ==
             /\ r[1] = "obj"
             /\ Get(r, "detailUrl") # None /\ Get(r, "detailUrl")[1] = "str"
             /\ typed(Get(r, "price"), {"num", "null"})
             /\ \/ typed(Get(r, "units"), {"null"})
                \/ /\ Get(r, "units")[1] = "arr"
                   /\ \A k \in 1..Len(Get(r, "units")[2]) :
                        unitTyped(Get(r, "units")[2][k])
           kept == SelectSeq(args, wellTyped)
       IN /\ ~result.threw
          /\ result.properties = [k \in 1..Len(kept) |-> ToProperty(kept[k]).property[1]]
          /\ result.warnings = Len(args) - Len(kept)
          /\ Len(result.properties) <= Len(args)
          /\ args = <<>> => result.properties = <<>>

\* C17: every Property returned by recordsToProperties, and therefore every
\* row that a sync makes of it for the store, has a non-empty detail URL.
C17_DetailUrlNotEmpty ==
  pc = "done_recordsToProperties"
    => \A k \in 1..Len(result.properties) :
         /\ result.properties[k].detailUrl # ""
         /\ \A date \in Dates :
              PropertyToRecord(result.properties[k], date).detail_url # ""

C19_KeyOfDetailUrlAlone ==
  /\ pc = "done_generateRecordId"
       => /\ (args[1].detailUrl = args[2].detailUrl) <=> (result[1] = result[2])
          /\ result[1] = Sha256Upper(args[1].detailUrl)
          /\ result[2] = Sha256Upper(args[2].detailUrl)
  /\ pc = "done_propertyToRecord"
       => /\ result.detail_url = args[1].detailUrl
          /\ result.record_id = Sha256Upper(result.detail_url)

\* two properties of the same URL and different prices have got their keys
C19_Witness ==
  /\ pc = "done_generateRecordId"
  /\ args[1].detailUrl = args[2].detailUrl
  /\ args[1].price # args[2].price
  /\ result[1] = result[2]

\* C20: propertyToRecord stores price = round(p * 100) when the property's
\* price p is a number, zero included (the integer nearest to p * 100,
\* halves going up), and stores null exactly when the price is null or
\* absent.
C20_PriceRoundedToCents ==
  pc = "done_propertyToRecord"
    => LET p == args[1].price
       IN /\ (p = None) <=> (result.price = None)
          /\ p # None
               => /\ result.price # None
                  /\ 10 * result.price[1] - 5 <= p[1]
                  /\ p[1] < 10 * result.price[1] + 5

\* C23: on a successful upsert persistProperties returns the number of rows
\* of the row set the store reports, whatever that row set is, and the size
\* of the deduplicated input only when the store reports no row set at all.
C23_ReturnsReportedRowCount ==
  (pc = "done_persistProperties" /\ ~result.threw /\ result.calls = 1)
    => LET records == [j \in 1..Len(args.properties) |->
                         PropertyToRecord(args.properties[j], "2024-01-03")]
           uniqueRecords == DeduplicateByDetailUrl(records)
           data == StoreData(args.answer, uniqueRecords)
       IN result.value = IF data = None THEN Len(uniqueRecords) ELSE data[1]

\* C29: flattenMapping maps every leaf of a nested mapping to the key formed
\* by joining the keys of its path with "__": the output holds each leaf
\* under that key and nothing else, no value of the output is a mapping,
\* arrays and null values are stored unchanged and not descended into, and
\* the input is not modified.
C29_LeavesUnderJoinedKeys ==
  pc = "done_flattenMapping"
    => LET RECURSIVE Join(_)
           Join(path) ==
             IF Len(path) = 1 THEN path[1]
             ELSE Join(SubSeq(path, 1, Len(path) - 1)) \o "__" \o path[Len(path)]
           RECURSIVE Leaves(_, _)
           Leaves(obj, path) ==
             UNION {IF obj[2][k][2][1] = "obj"
                      THEN Leaves(obj[2][k][2], Append(path, obj[2][k][1]))
                      ELSE {<<Join(Append(path, obj[2][k][1])), obj[2][k][2]>>} :
                    k \in 1..Len(obj[2])}
           leaves == Leaves(args, <<>>)
       IN /\ \A leaf \in leaves : Get(Obj(result), leaf[1]) = leaf[2]
          /\ \A k \in 1..Len(result) :
               /\ <<result[k][1], result[k][2]>> \in leaves
               /\ result[k][2][1] # "obj"

\* C30: extractResults returns the payload's results field when it is a
\* sequence; otherwise its props field when that is a sequence; otherwise the
\* payload itself when it is a sequence; otherwise the empty sequence, also
\* for a null or absent payload. A payload carrying both sequences yields
\* results, never props.
C30_ResultsThenPropsThenPayload ==
  pc = "done_extractResults"
    => IF args = None \/ args = Null THEN result = <<>>
       ELSE LET results == Get(args, "results")
                props == Get(args, "props")
            IN /\ result = IF IsArray(results) THEN results[2]
                           ELSE IF IsArray(props) THEN props[2]
                           ELSE IF IsArray(args) THEN args[2]
                           ELSE <<>>
               /\ (IsArray(results) /\ IsArray(props)) => result = results[2]

\* a payload with both fields, the results list being the empty one
C30_Witness ==
  /\ pc = "done_extractResults"
  /\ args = Obj(<< <<"results", Arr(<<>>)>>, <<"props", Arr(<<RecB>>)>> >>)
  /\ result = <<>>

\* ------------------------------------------------------------------------
\* HTTP surface: GET /api/rentals, POST /api/sync, GET /api/cron/daily-fetch
\* ------------------------------------------------------------------------

\* longest list of properties the batch loop of one sync request collects
MaxCollected == 1

\* process.env.CRON_SECRET: unset, or the configured secret
CronSecrets == {None, Some("s3cret")}

\* request.headers.get('authorization'): null or the header's value
AuthHeaders ==
  {None, Some("Bearer s3cret"), Some("Bearer other"), Some("s3cret"),
   Some("Bearer undefined")}

\* `Bearer ${process.env.CRON_SECRET}`: a template literal formats an
\* undefined value as the text "undefined"
ExpectedAuth(secret) ==
  "Bearer " \o (IF secret = None THEN "undefined" ELSE secret[1])

\* requests a server whose environment holds `secret` can receive; the
\* rentals request carries no query parameter
HttpRequests(secret) ==
  [endpoint : {"cron"}, authorization : AuthHeaders, cronSecret : {secret}]
    \cup [endpoint : {"rentals", "sync"}, authorization : {None},
          cronSecret : {secret}]

\* the JSON body POST /api/sync answers with
SyncBody(r) ==
  IF r.success
    THEN [success |-> TRUE, message |-> "Sync completed successfully",
          collected |-> r.collected, persisted |-> r.persisted,
          ingestionDate |-> r.ingestionDate]
    ELSE [success |-> FALSE, error |-> r.error]

\* one run of POST /api/sync on the table `rows`, its batch loop having
\* collected `properties`: the table afterwards, what persistProperties did,
\* and the HTTP response
SyncOutcome(rows, properties, today, answer) ==
  LET res == PersistProperties(rows, properties, Some(today), today, answer)
      r == SyncResponse(res, Len(properties), today)
  IN [res |-> res, response |-> [status |-> r.status, body |-> SyncBody(r)]]

\* rental.price ? rental.price / 100 : null, the quotient held as dollars and
\* remaining cents
PriceInDollars(price) ==
  IF price = None \/ price[1] = 0 THEN None
  ELSE Some(<<price[1] \div 100, price[1] % 100>>)

\* what the store answers to the rentals query
QueryAnswers == {"rows", "nodata", "error", "throws"}

\* GET /api/rentals without query parameters
RentalsGet ==
  /\ pc = "http_request" /\ args.endpoint = "rentals"
  /\ \E answer \in QueryAnswers :
       response' =
         IF answer = "error"
           THEN [status |-> 500,
                 body |-> [error |-> "Failed to fetch rentals",
                           details |-> StoreErrorMessage]]
         ELSE IF answer = "throws"
           THEN [status |-> 500, body |-> [error |-> "Internal server error"]]
         ELSE LET rentals == IF answer = "nodata" THEN {}
                             ELSE {[rental EXCEPT !.price = PriceInDollars(rental.price)] :
                                     rental \in store}
              IN [status |-> 200,
                  body |-> [data |-> rentals, count |-> Cardinality(rentals)]]
  /\ pc' = "http_responded"
  /\ UNCHANGED <<persistVars, fetchVars, iterVars, i, loc, allRecords, allProperties,
                 batchLog, elapsed, callVars>>

\* POST /api/sync called by a client
SyncPost ==
  /\ pc = "http_request" /\ args.endpoint = "sync"
  /\ \E properties \in SeqsUpTo(PersistInputs, MaxCollected), answer \in StoreAnswers :
       LET out == SyncOutcome(store, properties, "2024-01-01", answer)
       IN /\ store' = out.res.rows
          /\ persistResult' = [out.res EXCEPT !.rows = {}]
          /\ latest' = IF out.res.threw \/ out.res.calls = 0 THEN latest
                       ELSE LatestAfter(latest, properties, "2024-01-01")
          /\ response' = out.response
  /\ pc' = "http_responded"
  /\ UNCHANGED <<fetchVars, iterVars, i, loc, allRecords, allProperties, batchLog,
                 elapsed, callVars>>

\* GET /api/cron/daily-fetch up to the internal fetch of /api/sync
CronGet ==
  /\ pc = "http_request" /\ args.endpoint = "cron"
  /\ IF args.authorization # Some(ExpectedAuth(args.cronSecret))
       THEN /\ response' = [status |-> 401, body |-> [error |-> "Unauthorized"]]
            /\ pc' = "http_responded"
       ELSE /\ response' = response
            /\ pc' = "cron_awaitSync"
  /\ UNCHANGED <<persistVars, fetchVars, iterVars, i, loc, allRecords, allProperties,
                 batchLog, elapsed, callVars>>

\* the internal POST /api/sync is over: fetch threw, the body was not JSON,
\* or the sync ran and its response is relayed
CronRelay ==
  /\ pc = "cron_awaitSync"
  /\ \/ /\ \E message \in {"fetch failed", "Unexpected token < in JSON"} :
             response' = [status |-> 500,
                          body |-> [success |-> FALSE, error |-> message]]
        /\ UNCHANGED <<persistVars, result>>
     \/ \E properties \in SeqsUpTo(PersistInputs, MaxCollected), answer \in StoreAnswers :
          LET out == SyncOutcome(store, properties, "2024-01-01", answer)
          IN /\ store' = out.res.rows
             /\ persistResult' = [out.res EXCEPT !.rows = {}]
             /\ latest' = IF out.res.threw \/ out.res.calls = 0 THEN latest
                          ELSE LatestAfter(latest, properties, "2024-01-01")
             /\ result' = Some(out.response)
             /\ response' =
                  IF out.response.status # 200
                    THEN [status |-> 500,
                          body |-> [success |-> FALSE,
                                    error |-> "Sync endpoint failed",
                                    details |-> out.response.body]]
                    ELSE [status |-> 200,
                          body |-> [success |-> TRUE,
                                    message |-> "Daily fetch completed",
                                    syncResult |-> out.response.body]]
  /\ pc' = "http_responded"
  /\ UNCHANGED <<args, fetchVars, iterVars, i, loc, allRecords, allProperties,
                 batchLog, elapsed>>

\* the next request reaches the server
NewRequest ==
  /\ pc = "http_responded"
  /\ args' \in HttpRequests(args.cronSecret)
  /\ result' = None
  /\ response' = NoResponse
  /\ pc' = "http_request"
  /\ UNCHANGED <<persistVars, fetchVars, iterVars, i, loc, allRecords, allProperties,
                 batchLog, elapsed>>

InitHttp ==
  /\ pc = "http_request"
  /\ InitPersistVars /\ InitFetchVars /\ InitIterVars /\ InitSyncVars
  /\ result = None
  /\ \E secret \in CronSecrets : args \in HttpRequests(secret)

NextHttp ==
  \/ RentalsGet
  \/ SyncPost
  \/ CronGet
  \/ CronRelay
  \/ NewRequest

SpecHttp == InitHttp /\ [][NextHttp]_vars

\* C24: GET /cron/daily-fetch issues the internal POST /sync only when the
\* request's Authorization header equals "Bearer " followed by the configured
\* cron secret; every other request is answered 401 and issues no sync.
C24_SyncOnlyWithConfiguredSecret ==
  [][(pc = "http_request" /\ args.endpoint = "cron")
       => LET authorized ==
                /\ args.cronSecret # None
                /\ args.authorization = Some("Bearer " \o args.cronSecret[1])
          IN IF authorized
               THEN pc' \in {"cron_awaitSync", "http_request"}
               ELSE pc' = "http_request"
                      \/ (pc' = "http_responded" /\ response'.status = 401
                            /\ store' = store)]_vars

\* C25: every failure response of GET /rentals, POST /sync and
\* GET /cron/daily-fetch is a JSON envelope holding success:false and a
\* human-readable message.
C25_FailureEnvelope ==
  (pc = "http_responded" /\ response.status >= 400)
    => /\ "success" \in DOMAIN response.body
       /\ response.body.success = FALSE
       /\ {"error", "message"} \cap DOMAIN response.body # {}

====
